---- MODULE Spec2Model ----
(***************************************************************************)
(* Model of the Option library of stdlib-ts: the fluent class              *)
(* AbstractOption / None / Some (src/src/option/fluent.ts), the pipeable   *)
(* functions (src/src/option/pipable.ts) and the helpers they use          *)
(* (src/src/fuction.ts).                                                   *)
(*                                                                         *)
(* JavaScript values are records; every field name always holds one kind   *)
(* of TLA+ value.  An operation is an operator that returns an outcome:    *)
(* the value returned or the error thrown, and the log of the function     *)
(* values it invoked, in order, with their arguments.                      *)
(*                                                                         *)
(* Every record constructor lists its fields in the order in which the     *)
(* names first occur in this module, which is the order TLC stores them    *)
(* in.                                                                     *)
(***************************************************************************)
EXTENDS Integers, Sequences, FiniteSets, TLC

\* Numbers an input may be: 0 .. MaxNum.
MaxNum == 2
\* Longest chain of method calls on an option after its construction.
MaxSteps == 2
\* Most functions handed to pipe or compose.
MaxFns == 2

(***************************************************************************)
(* JavaScript values                                                       *)
(***************************************************************************)
Null == [t |-> "null"]
Undefined == [t |-> "undefined"]
NaN == [t |-> "NaN"]
Num(n) == [t |-> "number", n |-> n]
Bool(b) == [t |-> "boolean", b |-> b]
Str(s) == [t |-> "string", s |-> s]
Arr(items) == [t |-> "Array", items |-> items]

IsOption(v) == "_tag" \in DOMAIN v
IsFunction(v) == "fn" \in DOMAIN v

\* F.identity
identity == [fn |-> "identity"]

IsArray(v) == "items" \in DOMAIN v

\* new Error(message)
Error(msg) == [name |-> "Error", message |-> msg]

\* class NoSuchElementException extends Error
NoSuchElementException(msg) ==
  [name |-> "NoSuchElementException", message |-> msg]

\* class None: _tag = 'None', no payload
NewNone == [_tag |-> "None"]

\* class Some<A>: _tag = 'Some', this.value = value
NewSome(value) == [_tag |-> "Some", value |-> value]

(***************************************************************************)
(* Outcomes of an evaluation                                               *)
(***************************************************************************)
Ret(v, l) == [thrown |-> FALSE, val |-> v, log |-> l]
Throw(err, l) == [thrown |-> TRUE, val |-> err, log |-> l]

\* Evaluate o, and if it returned, continue with K on its value; a throw
\* ends the evaluation (no operation but tryCatch has a try block).
Bind(o, K(_)) ==
  IF o.thrown THEN o
  ELSE LET n == K(o.val) IN [n EXCEPT !.log = o.log \o n.log]

\* JavaScript ToNumber on the values of this model (NaN: not numeric)
IsNumeric(a) ==
  /\ "t" \in DOMAIN a
  /\ \/ a.t \in {"number", "boolean", "null"}
     \/ a.t = "string" /\ a.s = ""

ToInt(a) ==
  IF a.t = "number" THEN a.n
  ELSE IF a.t = "boolean" /\ a.b THEN 1
  ELSE 0

\* JavaScript truthiness of a returned value used as a condition
Truthy(a) ==
  IF "t" \notin DOMAIN a THEN TRUE
  ELSE CASE a.t = "null" -> FALSE
         [] a.t = "undefined" -> FALSE
         [] a.t = "NaN" -> FALSE
         [] a.t = "number" -> a.n # 0
         [] a.t = "boolean" -> a.b
         [] a.t = "string" -> a.s # ""
         [] OTHER -> TRUE

\* a == null  (loose equality: null or undefined)
LooseNull(a) == a = Null \/ a = Undefined

\* a !== null  negated (strict equality: null only)
StrictNull(a) == a = Null

\* TypeError raised by the runtime (call of a non-function, destructuring
\* of a non-iterable)
TypeError(msg) == [name |-> "TypeError", message |-> msg]

(***************************************************************************)
(* Function values.  A function value is a record [fn |-> name, ...] with  *)
(* the values it closes over; Call gives its body.  Every invocation is    *)
(* logged with its arguments before the body runs.                         *)
(***************************************************************************)
\* The log entry of one invocation: the function value and its arguments
Entry(f, xs) == <<[cb |-> f, args |-> xs]>>

Prepend(entry, o) == [o EXCEPT !.log = entry \o o.log]

RECURSIVE Call(_, _)

\* F.not: the returned (a) => !predicate(a)
not_closure(predicate, a) ==
  Bind(Call(predicate, <<a>>), LAMBDA r: Ret(Bool(~Truthy(r)), <<>>))

\* fromPredicate: the returned (a) => (predicate(a) ? new Some(a) : new None())
fromPredicate_closure(predicate, a) ==
  Bind(Call(predicate, <<a>>),
       LAMBDA r: Ret(IF Truthy(r) THEN NewSome(a) ELSE NewNone, <<>>))

\* when: the returned (a) => cond ? new Some(a()) : new None()
when_closure(cond, a) ==
  IF Truthy(cond)
    THEN Bind(Call(a, <<>>), LAMBDA r: Ret(NewSome(r), <<>>))
    ELSE Ret(NewNone, <<>>)

\* unless without the negation
unless_closure_unnegated(cond, a) ==
  IF Truthy(cond)
    THEN Bind(Call(a, <<>>), LAMBDA r: Ret(NewSome(r), <<>>))
    ELSE Ret(NewNone, <<>>)

\* unless: the returned (a) => !cond ? new Some(a()) : new None()
unless_closure(cond, a) ==
  IF ~Truthy(cond)
    THEN Bind(Call(a, <<>>), LAMBDA r: Ret(NewSome(r), <<>>))
    ELSE Ret(NewNone, <<>>)

\* The composition law's a => bc(ab(a)), with ab = f and bc = g
composed_closure(f, g, a) ==
  Bind(Call(f, <<a>>), LAMBDA r: Call(g, <<r>>))

\* f(...args) for a function value f
Call(f, args) ==
  LET entry == Entry(f, args)
      a == IF Len(args) > 0 THEN args[1] ELSE Undefined
      b == IF Len(args) > 1 THEN args[2] ELSE Undefined
  IN IF ~IsFunction(f) THEN Throw(TypeError("not a function"), <<>>)
     ELSE CASE f.fn = "identity" -> Ret(a, entry)
            [] f.fn = "constant" -> Ret(f.a, entry)
            [] f.fn = "not" -> Prepend(entry, not_closure(f.p, a))
            [] f.fn = "double" ->
                 Ret(IF IsNumeric(a) THEN Num(ToInt(a) * 2) ELSE NaN, entry)
            [] f.fn = "gt" ->
                 Ret(Bool(IsNumeric(a) /\ ToInt(a) > f.k), entry)
            [] f.fn = "toNull" -> Ret(Null, entry)
            [] f.fn = "toUndefined" -> Ret(Undefined, entry)
            [] f.fn = "dup" -> Ret(Arr(<<a, a>>), entry)
            [] f.fn = "throws" -> Throw(Error(f.e), entry)
            [] f.fn = "Some" -> Ret(NewSome(a), entry)
            [] f.fn = "None" -> Ret(NewNone, entry)
            [] f.fn = "fromPredicate" ->
                 Prepend(entry, fromPredicate_closure(f.p, a))
            [] f.fn = "when" -> Prepend(entry, when_closure(f.cond, a))
            [] f.fn = "unless" -> Prepend(entry, unless_closure(f.cond, a))
            [] f.fn = "absurd" ->
                 Throw(Error("Called absurd function which should be un-callable"),
                       entry)
            [] f.fn = "add" ->
                 Ret(IF IsNumeric(a) /\ IsNumeric(b)
                       THEN Num(ToInt(a) + ToInt(b)) ELSE NaN, entry)
            [] f.fn = "tuple" -> Ret(Arr(args), entry)
            [] f.fn = "composed" -> Prepend(entry, composed_closure(f.f, f.g, a))

\* F.absurd
absurd == [fn |-> "absurd"]

\* a => g(f(a))
composed(f, g) == [fn |-> "composed", f |-> f, g |-> g]

\* F.tuple
tuple == [fn |-> "tuple"]

\* (acc, elm) => acc + elm
add == [fn |-> "add"]

\* F.constant(a): () => a
constant(a) == [fn |-> "constant", a |-> a]

\* F.not(predicate): (a) => !predicate(a)
not(predicate) == [fn |-> "not", p |-> predicate]

\* () => { throw new Error(e) }
throws(e) == [fn |-> "throws", e |-> e]

\* (a) => a > k
gt(k) == [fn |-> "gt", k |-> k]

\* How often the log holds an invocation of f
Count(log, f) == Cardinality({i \in 1..Len(log) : log[i].cb = f})

(***************************************************************************)
(* Static constructors of AbstractOption (fluent.ts)                       *)
(***************************************************************************)
\* Some(value) builds a None for null and undefined, as fromNullable does
Some_nullable(value) ==
  Ret(IF LooseNull(value) THEN NewNone ELSE NewSome(value), <<>>)

Some(value) == Ret(NewSome(value), <<>>)

None == Ret(NewNone, <<>>)

apply(x) == Ret(IF ~StrictNull(x) THEN NewSome(x) ELSE NewNone, <<>>)

\* fromNullable tests truthiness instead of a == null
fromNullable_truthy(a) == Ret(IF Truthy(a) THEN NewSome(a) ELSE NewNone, <<>>)

fromNullable(a) == Ret(IF LooseNull(a) THEN NewNone ELSE NewSome(a), <<>>)

fromPredicate(predicate) == Ret([fn |-> "fromPredicate", p |-> predicate], <<>>)

empty == Ret(NewNone, <<>>)

when(cond) == Ret([fn |-> "when", cond |-> cond], <<>>)

unless(cond) == Ret([fn |-> "unless", cond |-> cond], <<>>)

\* tryCatch probes the thunk, then evaluates it again for the result
tryCatch_twice(f) ==
  LET r == Call(f, <<>>)
  IN IF r.thrown THEN Ret(NewNone, r.log)
     ELSE Bind(r, LAMBDA x: Bind(Call(f, <<>>), LAMBDA y: Ret(NewSome(y), <<>>)))

\* tryCatch without its catch block
tryCatch_rethrows(f) == Bind(Call(f, <<>>), LAMBDA r: Ret(NewSome(r), <<>>))

tryCatch(f) ==
  LET r == Call(f, <<>>)
  IN IF r.thrown THEN Ret(NewNone, r.log) ELSE Ret(NewSome(r.val), r.log)

AbstractOption_isSome(fa) == fa._tag = "Some"

AbstractOption_isNone(fa) == fa._tag = "None"

(***************************************************************************)
(* Instance methods of AbstractOption, None and Some (fluent.ts)           *)
(***************************************************************************)
\* get() on a None returns undefined instead of throwing
None_get_returns(this) == Ret(Undefined, <<>>)

\* None.get(): throw new NoSuchElementException('None.get')
None_get(this) == Throw(NoSuchElementException("None.get"), <<>>)

\* Some.get(): return this.value
Some_get(this) == Ret(this.value, <<>>)

\* this.get(), dispatched on the class of the receiver
get(this) == IF this._tag = "None" THEN None_get(this) ELSE Some_get(this)

\* this instanceof None / this instanceof Some
InstanceOfNone(this) == this._tag = "None"
InstanceOfSome(this) == this._tag = "Some"

isNone(this) == AbstractOption_isNone(this)

isSome(this) == AbstractOption_isSome(this)

isEmpty(this) == InstanceOfNone(this) /\ isNone(this)

\* isDefined without the negation of isEmpty
isDefined_unnegated(this) == InstanceOfSome(this) /\ isEmpty(this)

isDefined(this) == InstanceOfSome(this) /\ ~isEmpty(this)

knownSize(this) ==
  IF (InstanceOfSome(this) \/ InstanceOfNone(this)) /\ isEmpty(this)
    THEN 0 ELSE 1

\* getOrElse evaluates the default before it tests the receiver
getOrElse_eager(this, onNone) ==
  Bind(Call(onNone, <<>>),
       LAMBDA d: IF isNone(this) THEN Ret(d, <<>>) ELSE get(this))

getOrElse(this, onNone) ==
  IF isNone(this) THEN Call(onNone, <<>>) ELSE get(this)

getOrElseInv(this, onNone) == getOrElse(this, onNone)

orNull(this) == getOrElse(this, constant(Null))

\* map returns what f returned, without wrapping it in a Some
map_unwrapped(this, f) ==
  IF isNone(this)
    THEN Ret(NewNone, <<>>)
    ELSE Bind(get(this), LAMBDA v: Call(f, <<v>>))

\* map applies f to the value, then to what that application returned
map_twice(this, f) ==
  IF isNone(this)
    THEN Ret(NewNone, <<>>)
    ELSE Bind(get(this),
              LAMBDA v: Bind(Call(f, <<v>>),
                             LAMBDA r: Bind(Call(f, <<r>>),
                                            LAMBDA q: Ret(NewSome(q), <<>>))))

\* map applies f before it tests the receiver
map_eager(this, f) ==
  Bind(Call(f, <<IF isNone(this) THEN Undefined ELSE this.value>>),
       LAMBDA r: Ret(IF isNone(this) THEN NewNone ELSE NewSome(r), <<>>))

map(this, f) ==
  IF isNone(this)
    THEN Ret(NewNone, <<>>)
    ELSE Bind(get(this),
              LAMBDA v: Bind(Call(f, <<v>>), LAMBDA r: Ret(NewSome(r), <<>>)))

\* mapNullable without the test of this.isNone()
mapNullable_unchecked(this, f) ==
  Bind(Call(f, <<IF isNone(this) THEN Undefined ELSE this.value>>),
       LAMBDA r: fromNullable(r))

mapNullable(this, f) ==
  IF isNone(this)
    THEN Ret(NewNone, <<>>)
    ELSE Bind(get(this),
              LAMBDA v: Bind(Call(f, <<v>>), LAMBDA r: fromNullable(r)))

\* fold evaluates both branches, then selects one of the results
fold_both(this, onNone, onSome) ==
  Bind(Call(onNone, <<>>),
       LAMBDA n: IF isEmpty(this)
                   THEN Ret(n, <<>>)
                   ELSE Bind(get(this), LAMBDA v: Call(onSome, <<v>>)))

fold(this, onNone, onSome) ==
  IF isEmpty(this)
    THEN Call(onNone, <<>>)
    ELSE Bind(get(this), LAMBDA v: Call(onSome, <<v>>))

\* ap without the test of that.isNone()
ap_unchecked_that(this, that) ==
  IF isNone(this) THEN Ret(NewNone, <<>>)
  ELSE Bind(get(that),
            LAMBDA g: Bind(get(this),
                           LAMBDA v: Bind(Call(g, <<v>>),
                                          LAMBDA r: Ret(NewSome(r), <<>>))))

ap(this, that) ==
  IF isNone(that) THEN Ret(NewNone, <<>>)
  ELSE IF isNone(this) THEN Ret(NewNone, <<>>)
  ELSE Bind(get(that),
            LAMBDA g: Bind(get(this),
                           LAMBDA v: Bind(Call(g, <<v>>),
                                          LAMBDA r: Ret(NewSome(r), <<>>))))

\* chain without the test of this.isNone()
chain_unchecked(this, f) == Bind(get(this), LAMBDA v: Call(f, <<v>>))

chain(this, f) ==
  IF isNone(this)
    THEN Ret(NewNone, <<>>)
    ELSE Bind(get(this), LAMBDA v: Call(f, <<v>>))

\* flatMap wraps what f returned in a Some, as map does
flatMap_wraps(this, f) ==
  IF isEmpty(this)
    THEN Ret(NewNone, <<>>)
    ELSE Bind(get(this),
              LAMBDA v: Bind(Call(f, <<v>>), LAMBDA r: Ret(NewSome(r), <<>>)))

flatMap(this, f) ==
  IF isEmpty(this)
    THEN Ret(NewNone, <<>>)
    ELSE Bind(get(this), LAMBDA v: Call(f, <<v>>))

\* flatten maps the identity instead of chaining it
flatten_map(this) == map(this, identity)

\* flatten leaves a Some alone when its value is not an option
flatten_checked(this) ==
  IF isNone(this) \/ IsOption(this.value)
    THEN chain(this, identity)
    ELSE Ret(this, <<>>)

flatten(this) == chain(this, identity)

\* filter treats a predicate that throws as one that rejects
filter_swallows(this, predicate) ==
  IF isEmpty(this)
    THEN Ret(this, <<>>)
    ELSE LET r == Call(predicate, <<this.value>>)
         IN Ret(IF ~r.thrown /\ Truthy(r.val) THEN this ELSE NewNone, r.log)

filter(this, predicate) ==
  IF isEmpty(this)
    THEN Ret(this, <<>>)
    ELSE Bind(get(this),
              LAMBDA v: Bind(Call(predicate, <<v>>),
                             LAMBDA r: Ret(IF Truthy(r) THEN this ELSE NewNone,
                                           <<>>)))

\* filterNot without the negation of the predicate
filterNot_unnegated(this, predicate) ==
  IF isEmpty(this)
    THEN Ret(this, <<>>)
    ELSE Bind(get(this),
              LAMBDA v: Bind(Call(predicate, <<v>>),
                             LAMBDA r: Ret(IF Truthy(r) THEN this ELSE NewNone,
                                           <<>>)))

filterNot(this, predicate) ==
  IF isEmpty(this)
    THEN Ret(this, <<>>)
    ELSE Bind(get(this),
              LAMBDA v: Bind(Call(predicate, <<v>>),
                             LAMBDA r: Ret(IF ~Truthy(r) THEN this ELSE NewNone,
                                           <<>>)))

nonEmpty(this) == isDefined(this)

exists(this, predicate) ==
  IF isNone(this)
    THEN Ret(Bool(FALSE), <<>>)
    ELSE Bind(get(this), LAMBDA v: Call(predicate, <<v>>))

\* forall answers false on a None, as exists does
forall_as_exists(this, predicate) ==
  IF isEmpty(this)
    THEN Ret(Bool(FALSE), <<>>)
    ELSE Bind(get(this), LAMBDA v: Call(predicate, <<v>>))

forall(this, predicate) ==
  IF isEmpty(this)
    THEN Ret(Bool(TRUE), <<>>)
    ELSE Bind(get(this), LAMBDA v: Call(predicate, <<v>>))

foreach(this, f) ==
  IF ~isEmpty(this)
    THEN Bind(get(this),
              LAMBDA v: Bind(Call(f, <<v>>), LAMBDA r: Ret(Undefined, <<>>)))
    ELSE Ret(Undefined, <<>>)

\* orElse evaluates the alternative before it tests the receiver
orElse_eager(this, alternative) ==
  Bind(Call(alternative, <<>>),
       LAMBDA alt: IF isEmpty(this) THEN Ret(alt, <<>>) ELSE Ret(this, <<>>))

orElse(this, alternative) ==
  IF isEmpty(this) THEN Call(alternative, <<>>) ELSE Ret(this, <<>>)

\* zip pairs the two values in the wrong order
zip_swapped(this, that) ==
  IF isEmpty(this) \/ isEmpty(that)
    THEN Ret(NewNone, <<>>)
    ELSE Bind(get(this),
              LAMBDA a: Bind(get(that),
                             LAMBDA b: Ret(NewSome(Arr(<<b, a>>)), <<>>)))

zip(this, that) ==
  IF isEmpty(this) \/ isEmpty(that)
    THEN Ret(NewNone, <<>>)
    ELSE Bind(get(this),
              LAMBDA a: Bind(get(that),
                             LAMBDA b: Ret(NewSome(Arr(<<a, b>>)), <<>>)))

\* const [a1, a2] = pair : array destructuring of the value asPair returned
Destructure2(pair) ==
  IF IsArray(pair)
    THEN Ret(Arr(<<IF Len(pair.items) >= 1 THEN pair.items[1] ELSE Undefined,
                   IF Len(pair.items) >= 2 THEN pair.items[2] ELSE Undefined>>),
             <<>>)
  ELSE IF pair = Str("")
    THEN Ret(Arr(<<Undefined, Undefined>>), <<>>)
  ELSE Throw(TypeError("not iterable"), <<>>)

unzip(this, asPair) ==
  IF isEmpty(this)
    THEN Ret(Arr(<<NewNone, NewNone>>), <<>>)
    ELSE Bind(get(this),
              LAMBDA v: Bind(Call(asPair, <<v>>),
                             LAMBDA pair:
                               Bind(Destructure2(pair),
                                    LAMBDA d: Ret(Arr(<<NewSome(d.items[1]),
                                                        NewSome(d.items[2])>>),
                                                  <<>>))))

toList(this) ==
  IF isEmpty(this)
    THEN Ret(Arr(<<>>), <<>>)
    ELSE Bind(get(this), LAMBDA v: Ret(Arr(<<v>>), <<>>))

\* toNullable yields undefined for None
toNullable_undefined(this) ==
  IF isNone(this) THEN Ret(Undefined, <<>>) ELSE get(this)

toNullable(this) == IF isNone(this) THEN Ret(Null, <<>>) ELSE get(this)

toUndefined(this) == IF isNone(this) THEN Ret(Undefined, <<>>) ELSE get(this)

(***************************************************************************)
(* The pipeable functions (pipable.ts).  `_` is the default export of the  *)
(* fluent module; `_.none` is its static getter, which returns the one     *)
(* None instance.                                                          *)
(***************************************************************************)
\* None.getInstance(): the single None, created on first use.  A None has
\* no data, and values here have no identity, so it is the None record.
getInstance == NewNone

\* the fluent class has no static `none`: the property reads as undefined
none_missing == Undefined

\* static get none(): None
none == getInstance

P_isSome(fa) == fa._tag = "Some"

P_isNone(fa) == fa._tag = "None"

P_exists(predicate, ma) ==
  IF P_isNone(ma) THEN Ret(Bool(FALSE), <<>>)
  ELSE Call(predicate, <<ma.value>>)

P_filter(predicate, fa) ==
  IF P_isNone(fa) THEN Ret(none, <<>>)
  ELSE Bind(Call(predicate, <<fa.value>>),
            LAMBDA r: Ret(IF Truthy(r) THEN fa ELSE none, <<>>))

P_filterNot(predicate, fa) ==
  IF P_isSome(fa)
    THEN Bind(Call(predicate, <<fa.value>>),
              LAMBDA r: Ret(IF ~Truthy(r) THEN fa ELSE none, <<>>))
    ELSE Ret(none, <<>>)

P_flatMap(f, ma) ==
  IF P_isNone(ma) THEN Ret(none, <<>>) ELSE Call(f, <<ma.value>>)

P_compact(fa) == P_flatMap(identity, fa)

P_flatten(mma) == P_compact(mma)

P_foldW(onNone, onSome, ma) ==
  IF P_isNone(ma) THEN Call(onNone, <<>>) ELSE Call(onSome, <<ma.value>>)

P_fold(onNone, onSome, ma) == P_foldW(onNone, onSome, ma)

P_forall(predicate, ma) ==
  IF P_isNone(ma) THEN Ret(Bool(TRUE), <<>>)
  ELSE Call(predicate, <<ma.value>>)

P_forEach(f, fa) ==
  IF ~P_isNone(fa)
    THEN Bind(Call(f, <<fa.value>>), LAMBDA r: Ret(Undefined, <<>>))
    ELSE Ret(Undefined, <<>>)

\* getOrElseW evaluates the default before it tests the option
P_getOrElseW_eager(onNone, ma) ==
  Bind(Call(onNone, <<>>),
       LAMBDA d: Ret(IF P_isNone(ma) THEN d ELSE ma.value, <<>>))

P_getOrElseW(onNone, ma) ==
  IF P_isNone(ma) THEN Call(onNone, <<>>) ELSE Ret(ma.value, <<>>)

P_getOrElse(onNone, ma) == P_getOrElseW(onNone, ma)

(***************************************************************************)
(* The free functions pipe (pipe.ts) and compose (compose.ts)              *)
(***************************************************************************)
RECURSIVE reduce(_, _, _)
\* fns.reduce((acc, f) => f(acc), param), from the element at index i on
reduce(fns, i, param) ==
  IF i > Len(fns)
    THEN Ret(param, <<>>)
    ELSE Bind(Call(fns[i], <<param>>), LAMBDA r: reduce(fns, i + 1, r))

RECURSIVE reduceRight(_, _, _)
\* fns.reduceRight((x, f) => f(x), param), from the element at index i down
reduceRight(fns, i, param) ==
  IF i < 1
    THEN Ret(param, <<>>)
    ELSE Bind(Call(fns[i], <<param>>), LAMBDA r: reduceRight(fns, i - 1, r))

\* pipe folds the functions from the right
pipe_right(fns, param) == reduceRight(fns, Len(fns), param)

\* pipe(...fns)(param)
pipe(fns, param) == reduce(fns, 1, param)

\* compose folds the functions from the left
compose_left(fns, param) == reduce(fns, 1, param)

\* compose(...fns)(param)
compose(fns, param) == reduceRight(fns, Len(fns), param)

(***************************************************************************)
(* foldLeft (fold.ts).  foldLeft(acc) returns reducer, reducer(op) returns *)
(* apply, and apply(iterable) runs the loop over the variable acc that     *)
(* foldLeft's call captured.                                               *)
(***************************************************************************)
RECURSIVE forOf(_, _, _, _, _)
\* for (const el of iterable) acc = op(acc, el); return acc -- from the
\* element at index i on: <<the value acc is left with, the outcome>>
forOf(a, op, iterable, i, log) ==
  IF i > Len(iterable)
    THEN <<a, Ret(a, log)>>
    ELSE LET r == Call(op, <<a, iterable[i]>>)
         IN IF r.thrown
              THEN <<a, Throw(r.val, log \o r.log)>>
              ELSE forOf(r.val, op, iterable, i + 1, log \o r.log)

\* apply(iterable), with the captured variable holding a
foldLeft_apply(a, op, iterable) == forOf(a, op, iterable, 1, <<>>)

(***************************************************************************)
(* The client: it constructs an option with one of the constructors, then  *)
(* calls methods and pipeable functions on it and on the options they      *)
(* return.                                                                 *)
(*   origin  the constructor call that made the first option of the chain  *)
(*   recv    the option the next call is made on (Undefined: none)         *)
(*   last    the latest call: operation, receiver, arguments, outcome      *)
(*   steps   calls made since the constructor call                         *)
(*   acc     the variable acc captured by the latest call of foldLeft      *)
(*   reducer_op  the op captured by the latest call of reducer             *)
(***************************************************************************)
VARIABLES origin, recv, last, steps, acc, reducer_op

vars == <<origin, recv, last, steps, acc, reducer_op>>

\* Inputs
Prims == {Null, Undefined, Bool(FALSE), Str("")} \cup {Num(n) : n \in 0..MaxNum}
Values == Prims \cup {identity, NewNone, NewSome(Num(1))}
Errors == {"E1", "E2"}
Fns == {identity, [fn |-> "double"], [fn |-> "toNull"], [fn |-> "toUndefined"]}
         \cup {throws(e) : e \in Errors}
Preds == {gt(0), not(gt(0)), throws("E1")}
OptFns == {[fn |-> "Some"], [fn |-> "None"], [fn |-> "fromPredicate", p |-> gt(0)],
           identity, throws("E1")}
Thunks == {constant(Null), constant(Num(0)), throws("E1")}
OptThunks == {constant(NewNone), constant(NewSome(Num(1))), throws("E2")}
Pairers == {[fn |-> "dup"], identity, throws("E1")}
Conds == {Bool(TRUE), Bool(FALSE)}
Thats == {NewNone, NewSome([fn |-> "double"]), NewSome(throws("E2")), NewSome(Num(1))}

Rec(op, this, args, out) == [args |-> args, this |-> this, op |-> op, out |-> out]

Returned(out) == ~out.thrown /\ IsOption(out.val)

\* A constructor call starts a chain.
Construct(op, args, out) ==
  /\ origin' = Rec(op, Undefined, args, out)
  /\ last' = Rec(op, Undefined, args, out)
  /\ recv' = IF Returned(out) THEN out.val ELSE Undefined
  /\ steps' = 0
  /\ UNCHANGED <<acc, reducer_op>>

\* A call on the current option; an option it returns is the next receiver.
Invoke(op, args, out) ==
  /\ last' = Rec(op, recv, args, out)
  /\ recv' = IF Returned(out) THEN out.val ELSE recv
  /\ steps' = steps + 1
  /\ UNCHANGED <<origin, acc, reducer_op>>

CanCall == IsOption(recv) /\ steps < MaxSteps

Init ==
  /\ origin = Rec("None", Undefined, <<>>, None)
  /\ last = Rec("None", Undefined, <<>>, None)
  /\ recv = NewNone
  /\ steps = 0
  /\ acc = Undefined
  /\ reducer_op = Undefined

CallNone == Construct("None", <<>>, None)
CallSome == \E v \in Values : Construct("Some", <<v>>, Some(v))
CallEmpty == Construct("empty", <<>>, empty)
CallApply == \E x \in Prims : Construct("apply", <<x>>, apply(x))
CallFromNullable == \E a \in Prims : Construct("fromNullable", <<a>>, fromNullable(a))
CallFromPredicate ==
  \E p \in Preds, a \in Prims :
    Construct("fromPredicate", <<p, a>>,
              Bind(fromPredicate(p), LAMBDA g: Call(g, <<a>>)))
CallWhen ==
  \E c \in Conds, a \in Thunks :
    Construct("when", <<c, a>>, Bind(when(c), LAMBDA g: Call(g, <<a>>)))
CallUnless ==
  \E c \in Conds, a \in Thunks :
    Construct("unless", <<c, a>>, Bind(unless(c), LAMBDA g: Call(g, <<a>>)))
CallTryCatch == \E f \in Thunks : Construct("tryCatch", <<f>>, tryCatch(f))

CallGet == CanCall /\ Invoke("get", <<>>, get(recv))
CallGetOrElse ==
  CanCall /\ \E d \in Thunks : Invoke("getOrElse", <<d>>, getOrElse(recv, d))
CallGetOrElseInv ==
  CanCall /\ \E d \in Thunks : Invoke("getOrElseInv", <<d>>, getOrElseInv(recv, d))
CallOrNull == CanCall /\ Invoke("orNull", <<>>, orNull(recv))
CallMap == CanCall /\ \E f \in Fns : Invoke("map", <<f>>, map(recv, f))
CallMapNullable ==
  CanCall /\ \E f \in Fns : Invoke("mapNullable", <<f>>, mapNullable(recv, f))
CallFold ==
  CanCall /\ \E n \in Thunks \cup {absurd}, f \in Fns \cup {absurd} :
    Invoke("fold", <<n, f>>, fold(recv, n, f))
CallAp == CanCall /\ \E that \in Thats : Invoke("ap", <<that>>, ap(recv, that))
CallChain == CanCall /\ \E f \in OptFns : Invoke("chain", <<f>>, chain(recv, f))
CallFlatMap == CanCall /\ \E f \in OptFns : Invoke("flatMap", <<f>>, flatMap(recv, f))
CallFlatten == CanCall /\ Invoke("flatten", <<>>, flatten(recv))
CallFilter == CanCall /\ \E p \in Preds : Invoke("filter", <<p>>, filter(recv, p))
CallFilterNot ==
  CanCall /\ \E p \in Preds : Invoke("filterNot", <<p>>, filterNot(recv, p))
CallExists == CanCall /\ \E p \in Preds : Invoke("exists", <<p>>, exists(recv, p))
CallForall == CanCall /\ \E p \in Preds : Invoke("forall", <<p>>, forall(recv, p))
CallForeach == CanCall /\ \E f \in Fns : Invoke("foreach", <<f>>, foreach(recv, f))
CallOrElse ==
  CanCall /\ \E alt \in OptThunks : Invoke("orElse", <<alt>>, orElse(recv, alt))
CallZip ==
  CanCall /\ \E that \in {NewNone, NewSome(Num(1))} :
    Invoke("zip", <<that>>, zip(recv, that))
CallUnzip == CanCall /\ \E f \in Pairers : Invoke("unzip", <<f>>, unzip(recv, f))
CallToList == CanCall /\ Invoke("toList", <<>>, toList(recv))
CallToNullable == CanCall /\ Invoke("toNullable", <<>>, toNullable(recv))
CallToUndefined == CanCall /\ Invoke("toUndefined", <<>>, toUndefined(recv))
CallClassify ==
  CanCall /\ Invoke("classify", <<>>,
                    Ret(Arr(<<Bool(isNone(recv)), Bool(isSome(recv)),
                              Bool(isEmpty(recv)), Bool(isDefined(recv)),
                              Bool(nonEmpty(recv)), Num(knownSize(recv)),
                              Bool(AbstractOption_isNone(recv)),
                              Bool(AbstractOption_isSome(recv))>>), <<>>))

CallP_exists == CanCall /\ \E p \in Preds : Invoke("P.exists", <<p>>, P_exists(p, recv))
CallP_filter == CanCall /\ \E p \in Preds : Invoke("P.filter", <<p>>, P_filter(p, recv))
CallP_filterNot ==
  CanCall /\ \E p \in Preds : Invoke("P.filterNot", <<p>>, P_filterNot(p, recv))
CallP_flatMap ==
  CanCall /\ \E f \in OptFns : Invoke("P.flatMap", <<f>>, P_flatMap(f, recv))
CallP_compact == CanCall /\ Invoke("P.compact", <<>>, P_compact(recv))
CallP_flatten == CanCall /\ Invoke("P.flatten", <<>>, P_flatten(recv))
CallP_foldW ==
  CanCall /\ \E n \in Thunks, f \in Fns :
    Invoke("P.foldW", <<n, f>>, P_foldW(n, f, recv))
CallP_fold ==
  CanCall /\ \E n \in Thunks, f \in Fns :
    Invoke("P.fold", <<n, f>>, P_fold(n, f, recv))
CallP_forall == CanCall /\ \E p \in Preds : Invoke("P.forall", <<p>>, P_forall(p, recv))
CallP_forEach == CanCall /\ \E f \in Fns : Invoke("P.forEach", <<f>>, P_forEach(f, recv))
CallP_getOrElseW ==
  CanCall /\ \E d \in Thunks : Invoke("P.getOrElseW", <<d>>, P_getOrElseW(d, recv))
CallP_getOrElse ==
  CanCall /\ \E d \in Thunks : Invoke("P.getOrElse", <<d>>, P_getOrElse(d, recv))

Next ==
  \/ CallNone \/ CallSome \/ CallEmpty \/ CallApply \/ CallFromNullable
  \/ CallFromPredicate \/ CallWhen \/ CallUnless \/ CallTryCatch
  \/ CallGet \/ CallGetOrElse \/ CallGetOrElseInv \/ CallOrNull
  \/ CallMap \/ CallMapNullable \/ CallFold \/ CallAp \/ CallChain
  \/ CallFlatMap \/ CallFlatten \/ CallFilter \/ CallFilterNot
  \/ CallExists \/ CallForall \/ CallForeach \/ CallOrElse \/ CallZip
  \/ CallUnzip \/ CallToList \/ CallToNullable \/ CallToUndefined
  \/ CallClassify
  \/ CallP_exists \/ CallP_filter \/ CallP_filterNot \/ CallP_flatMap
  \/ CallP_compact \/ CallP_flatten \/ CallP_foldW \/ CallP_fold
  \/ CallP_forall \/ CallP_forEach \/ CallP_getOrElseW \/ CallP_getOrElse

(***************************************************************************)
(* The client of the free functions: it calls pipe and compose with up to  *)
(* MaxFns functions and applies the function they return to a value.       *)
(***************************************************************************)
PipeFns == {[fn |-> "double"], [fn |-> "toNull"], identity, throws("E1")}
FnSeqs == UNION {[1..n -> PipeFns] : n \in 0..MaxFns}
PipeArgs == {Num(1), Num(2), Null}

\* A call of a free function
FreeCall(op, args, out) ==
  /\ last' = Rec(op, Undefined, args, out)
  /\ UNCHANGED <<origin, recv, steps, acc, reducer_op>>

CallPipe ==
  \E fns \in FnSeqs, x \in PipeArgs :
    FreeCall("pipe", <<Arr(fns), x>>, pipe(fns, x))

CallCompose ==
  \E fns \in FnSeqs, x \in PipeArgs :
    FreeCall("compose", <<Arr(fns), x>>, compose(fns, x))

NextFunctions == CallPipe \/ CallCompose

Spec == Init /\ [][Next]_vars

SpecFunctions == Init /\ [][NextFunctions]_vars

(***************************************************************************)
(* The client of foldLeft: it calls foldLeft(init), calls the reducer it   *)
(* returned with an op, and applies the function that returned to          *)
(* iterables, up to MaxSteps times.                                        *)
(***************************************************************************)
Inits == {Num(n) : n \in 0..MaxNum}
BinOps == {add, tuple, throws("E1")}
Iterables == {<<>>, <<Num(1)>>, <<Num(1), Num(2)>>, <<Num(2), Num(1)>>}

CallFoldLeft ==
  \E init \in Inits :
    /\ origin' = Rec("foldLeft", Undefined, <<init>>,
                     Ret([fn |-> "reducer"], <<>>))
    /\ last' = Rec("foldLeft", Undefined, <<init>>,
                   Ret([fn |-> "reducer"], <<>>))
    /\ acc' = init
    /\ reducer_op' = Undefined
    /\ steps' = 0
    /\ UNCHANGED recv

CallReducer ==
  /\ origin.op = "foldLeft"
  /\ \E op \in BinOps :
       /\ last' = Rec("reducer", Undefined, <<op>>, Ret([fn |-> "apply"], <<>>))
       /\ reducer_op' = op
       /\ UNCHANGED <<origin, recv, steps, acc>>

CallFoldApply ==
  /\ IsFunction(reducer_op)
  /\ steps < MaxSteps
  /\ \E iterable \in Iterables :
       LET r == foldLeft_apply(acc, reducer_op, iterable)
       IN /\ last' = Rec("foldLeft.apply", Undefined, <<Arr(iterable)>>, r[2])
          /\ acc' = r[1]
          /\ steps' = steps + 1
          /\ UNCHANGED <<origin, recv, reducer_op>>

NextFold == CallFoldLeft \/ CallReducer \/ CallFoldApply

SpecFold == Init /\ [][NextFold]_vars

(***************************************************************************)
(* Properties                                                              *)
(***************************************************************************)
OnNone == IsOption(last.this) /\ last.this._tag = "None"
OnSome == IsOption(last.this) /\ last.this._tag = "Some"

\* The positions of the log at which f was invoked
Invocations(log, f) == {i \in 1..Len(log) : log[i].cb = f}

ShortCircuitOps ==
  {"map", "mapNullable", "flatMap", "chain", "filter", "filterNot",
   "exists", "forall", "foreach", "unzip"}

Designated(op) ==
  CASE op \in {"map", "mapNullable", "flatMap", "chain", "filter", "filterNot"}
         -> NewNone
    [] op = "exists" -> Bool(FALSE)
    [] op = "forall" -> Bool(TRUE)
    [] op = "foreach" -> Undefined
    [] op = "unzip" -> Arr(<<NewNone, NewNone>>)

\* C1: short-circuit law of the fluent surface.  map, mapNullable, flatMap,
\* chain, filter, filterNot, exists, forall, foreach and unzip called on a
\* None invoke no function at all, do not throw and return None (false for
\* exists, true for forall, undefined for foreach, [None, None] for unzip);
\* called on a Some they invoke the supplied callback at most once, and
\* only with the wrapped value.
C1_ShortCircuit ==
  last.op \in ShortCircuitOps =>
    LET cb == last.args[1]
        log == last.out.log
    IN /\ OnNone => /\ Count(log, cb) = 0
                    /\ log = <<>>
                    /\ ~last.out.thrown
                    /\ last.out.val = Designated(last.op)
       /\ OnSome => /\ Count(log, cb) <= 1
                    /\ \A i \in Invocations(log, cb) :
                         log[i].args = <<last.this.value>>

C1_Witness ==
  /\ last.op = "mapNullable"
  /\ last.this = NewNone
  /\ last.args = <<throws("E1")>>
  /\ last.out = Ret(NewNone, <<>>)

\* C2: get() on Some(v) returns exactly v (null, undefined and function
\* values included); get() on a None returns nothing and throws
\* NoSuchElementException('None.get'); and no other operation called on a
\* None throws without having invoked a function.
C2_Get ==
  /\ last.op = "get" =>
       IF last.this._tag = "Some"
         THEN last.out = Ret(last.this.value, <<>>)
         ELSE last.out = Throw(NoSuchElementException("None.get"), <<>>)
  /\ (OnNone /\ last.out.thrown /\ last.out.log = <<>>) => last.op = "get"

C2_Witness ==
  /\ last.op = "get"
  /\ last.this = NewNone
  /\ last.out.thrown
  /\ last.out.val.name = "NoSuchElementException"

FluentTransformation(op, this, args) ==
  CASE op = "P.filter" -> filter(this, args[1])
    [] op = "P.filterNot" -> filterNot(this, args[1])
    [] op = "P.flatMap" -> flatMap(this, args[1])
    [] op \in {"P.flatten", "P.compact"} -> flatten(this)

\* The predicate of a filter / filterNot call rejects the wrapped value
Rejects(op, this, p) ==
  /\ this._tag = "Some"
  /\ LET r == Call(p, <<this.value>>)
     IN ~r.thrown /\ (Truthy(r.val) <=> op = "P.filterNot")

FluentEliminator(op, this, args) ==
  CASE op = "P.exists" -> exists(this, args[1])
    [] op = "P.forall" -> forall(this, args[1])
    [] op \in {"P.fold", "P.foldW"} -> fold(this, args[1], args[2])
    [] op \in {"P.getOrElse", "P.getOrElseW"} -> getOrElse(this, args[1])
    [] op = "P.forEach" -> foreach(this, args[1])

\* C4: the pipeable exists, forall, fold, foldW, getOrElse and forEach have
\* the same outcome as the fluent exists, forall, fold, getOrElse and
\* foreach on the same option and callbacks: the same result or thrown
\* error, and the same invocations of the callbacks, in the same order and
\* with the same arguments.
C4_EliminatorParity ==
  last.op \in {"P.exists", "P.forall", "P.fold", "P.foldW", "P.getOrElse",
               "P.getOrElseW", "P.forEach"} =>
    last.out = FluentEliminator(last.op, last.this, last.args)

C4_Witness ==
  /\ last.op = "P.getOrElse"
  /\ last.this = NewSome(Num(1))
  /\ last.args = <<throws("E1")>>
  /\ last.out = Ret(Num(1), <<>>)

\* C5: tryCatch(thunk) evaluates thunk exactly once and never throws; its
\* result is Some(r) if thunk returns r, and None if thunk throws.
C5_TryCatch ==
  last.op = "tryCatch" =>
    LET f == last.args[1]
        r == Call(f, <<>>)
    IN /\ ~last.out.thrown
       /\ Count(last.out.log, f) = 1
       /\ last.out.val = IF r.thrown THEN NewNone ELSE NewSome(r.val)

C5_Witness ==
  /\ last.op = "tryCatch"
  /\ last.args = <<throws("E1")>>
  /\ last.out.val = NewNone
  /\ ~last.out.thrown

ConstructorOps ==
  {"None", "Some", "empty", "apply", "fromNullable", "fromPredicate", "when",
   "unless", "tryCatch"}

\* C6 as stated: no constructor ever throws, whatever its arguments, a
\* predicate or lazy that throws included.
C6_ConstructorsTotal == last.op \in ConstructorOps => ~last.out.thrown

\* C6 amended: None, Some, empty, apply, fromNullable and tryCatch never
\* throw; fromPredicate(p)(a), when(c)(lazy) and unless(c)(lazy) throw only
\* when the predicate or lazy they invoke throws, and then they throw that
\* same error.
C6_ConstructorsTotalUnlessCallbackThrows ==
  (last.op \in ConstructorOps /\ last.out.thrown) =>
    /\ last.op \in {"fromPredicate", "when", "unless"}
    /\ \E i \in 1..Len(last.out.log) :
         LET e == last.out.log[i]
             r == Call(e.cb, e.args)
         IN /\ \E k \in 1..Len(last.args) : e.cb = last.args[k]
            /\ r.thrown
            /\ r.val = last.out.val

C6_Witness ==
  /\ last.op = "when"
  /\ last.args = <<Bool(TRUE), throws("E1")>>
  /\ last.out.thrown
  /\ last.out.val = Error("E1")

PropagateOps ==
  {"map", "mapNullable", "flatMap", "chain", "filter", "filterNot", "exists",
   "forall", "foreach", "fold", "getOrElse", "orElse", "ap", "unzip"}

\* C7: when a function invoked by map, mapNullable, flatMap, chain, filter,
\* filterNot, exists, forall, foreach, fold, getOrElse, orElse, ap or unzip
\* throws error e, the operation throws that same e.
C7_ErrorsPropagate ==
  last.op \in PropagateOps =>
    \A i \in 1..Len(last.out.log) :
      LET e == last.out.log[i]
          r == Call(e.cb, e.args)
      IN r.thrown => (last.out.thrown /\ last.out.val = r.val)

C7_Witness ==
  /\ last.op = "ap"
  /\ last.args = <<NewSome(throws("E2"))>>
  /\ OnSome
  /\ last.out.thrown
  /\ last.out.val = Error("E2")

\* C8: when(cond)(lazy) evaluates lazy exactly once if cond is true, and
\* its result is then Some of what lazy returned (or the error lazy threw);
\* if cond is false it evaluates lazy zero times and returns None.
\* unless(cond)(lazy) has the result of when(!cond)(lazy) and evaluates
\* lazy as often.
C8_WhenUnless ==
  LET c == last.args[1]
      lazy == last.args[2]
      r == Call(lazy, <<>>)
      w == Bind(when(Bool(~c.b)), LAMBDA g: Call(g, <<lazy>>))
  IN /\ last.op = "when" =>
          IF c.b
            THEN /\ Count(last.out.log, lazy) = 1
                 /\ last.out.thrown = r.thrown
                 /\ last.out.val = IF r.thrown THEN r.val ELSE NewSome(r.val)
            ELSE /\ Count(last.out.log, lazy) = 0
                 /\ ~last.out.thrown
                 /\ last.out.val = NewNone
     /\ last.op = "unless" =>
          /\ last.out.thrown = w.thrown
          /\ last.out.val = w.val
          /\ Count(last.out.log, lazy) = Count(w.log, lazy)

C8_Witness ==
  /\ last.op = "unless"
  /\ last.args = <<Bool(FALSE), constant(Num(0))>>
  /\ last.out.val = NewSome(Num(0))
  /\ Count(last.out.log, constant(Num(0))) = 1

\* C9: fromNullable(x) is None exactly when x is null or undefined, and
\* otherwise Some(x) with x unchanged (0, false and '' included).
C9_FromNullable ==
  last.op = "fromNullable" =>
    LET x == last.args[1]
    IN /\ ~last.out.thrown
       /\ (last.out.val = NewNone) <=> (x \in {Null, Undefined})
       /\ x \notin {Null, Undefined} => last.out.val = NewSome(x)

C9_Witness ==
  /\ last.op = "fromNullable"
  /\ last.args = <<Num(0)>>
  /\ last.out.val = NewSome(Num(0))

\* C10: fromNullable(x).toNullable() is x when x is neither null nor
\* undefined, and null otherwise.
C10_RoundTrip ==
  (/\ origin.op = "fromNullable"
   /\ last.op = "toNullable"
   /\ last.this = origin.out.val
   /\ steps = 1) =>
    LET x == origin.args[1]
    IN last.out = Ret(IF x \in {Null, Undefined} THEN Null ELSE x, <<>>)

C10_Witness ==
  /\ origin.op = "fromNullable"
  /\ origin.args = <<Undefined>>
  /\ last.op = "toNullable"
  /\ steps = 1
  /\ last.out.val = Null

\* C11: functor identity.  o.map(F.identity) does not throw and returns an
\* option equal to o: the same tag and, for a Some, the same wrapped value.
C11_FunctorIdentity ==
  (last.op = "map" /\ last.args = <<identity>>) =>
    /\ ~last.out.thrown
    /\ last.out.val = last.this

C11_Witness ==
  /\ last.op = "map"
  /\ last.args = <<identity>>
  /\ last.this = NewSome(Null)
  /\ last.out.val = NewSome(Null)

\* The invocations of the functions of fs in the log, in their order
Of(log, fs) == SelectSeq(log, LAMBDA e: e.cb \in fs)

\* C12: functor composition.  For every option o and functions f and g,
\* o.map(f).map(g) has the same outcome as o.map(a => g(f(a))): the same
\* option or the same thrown error, and the same invocations of f and g.
\* On a Some(v) on which neither throws, both sides invoke f once, with v,
\* and then g once, with what f returned.
C12_FunctorComposition ==
  last.op = "map" =>
    \A g \in Fns :
      LET f == last.args[1]
          lhs == Bind(last.out, LAMBDA fa: map(fa, g))
          rhs == map(last.this, composed(f, g))
      IN /\ lhs.thrown = rhs.thrown
         /\ lhs.val = rhs.val
         /\ Of(lhs.log, {f, g}) = Of(rhs.log, {f, g})
         /\ (OnSome /\ ~lhs.thrown) =>
              Of(lhs.log, {f, g}) =
                Entry(f, <<last.this.value>>)
                  \o Entry(g, <<Call(f, <<last.this.value>>).val>>)

C12_Witness ==
  /\ last.op = "map"
  /\ last.args = <<[fn |-> "double"]>>
  /\ last.this = NewSome(Num(1))
  /\ last.out.val = NewSome(Num(2))
  /\ map(last.out.val, [fn |-> "toNull"]).val = NewSome(Null)

\* C13: monad left identity.  On a Some(a), flatMap(f) and chain(f) invoke
\* f exactly once, with a, and return exactly what f(a) returns (or throw
\* what it throws).
C13_LeftIdentity ==
  (last.op \in {"flatMap", "chain"} /\ OnSome) =>
    LET f == last.args[1]
        r == Call(f, <<last.this.value>>)
    IN /\ last.out.thrown = r.thrown
       /\ last.out.val = r.val
       /\ Count(last.out.log, f) = 1
       /\ \A i \in Invocations(last.out.log, f) :
            last.out.log[i].args = <<last.this.value>>

C13_Witness ==
  /\ origin.op = "Some"
  /\ steps = 1
  /\ last.op = "flatMap"
  /\ last.args = <<[fn |-> "fromPredicate", p |-> gt(0)]>>
  /\ last.this = NewSome(Num(0))
  /\ last.out.val = NewNone

\* C14: monad right identity.  o.flatMap(Some) and o.chain(Some) do not
\* throw and return an option equal to o.
C14_RightIdentity ==
  (last.op \in {"flatMap", "chain"} /\ last.args = <<[fn |-> "Some"]>>) =>
    /\ ~last.out.thrown
    /\ last.out.val = last.this

C14_Witness ==
  /\ last.op = "chain"
  /\ last.args = <<[fn |-> "Some"]>>
  /\ last.this = NewSome(Num(2))
  /\ last.out = Ret(NewSome(Num(2)), Entry([fn |-> "Some"], <<Num(2)>>))

\* What isNone, isSome, isEmpty, isDefined, nonEmpty, knownSize and the
\* static isNone and isSome are to return for an option
Classification(o) ==
  IF o._tag = "None"
    THEN <<Bool(TRUE), Bool(FALSE), Bool(TRUE), Bool(FALSE), Bool(FALSE),
           Num(0), Bool(TRUE), Bool(FALSE)>>
    ELSE <<Bool(FALSE), Bool(TRUE), Bool(FALSE), Bool(TRUE), Bool(TRUE),
           Num(1), Bool(FALSE), Bool(TRUE)>>

\* C15: classification consistency.  On every option a constructor or a
\* fluent transformation produced, isSome() is the negation of isNone(),
\* the static isNone and isSome agree with the instance methods, isEmpty()
\* equals isNone(), isDefined() and nonEmpty() equal isSome(), and
\* knownSize is 0 on a None and 1 on a Some.
C15_Classification ==
  last.op = "classify" =>
    /\ ~last.out.thrown
    /\ last.out.val = Arr(Classification(last.this))

C15_Witness ==
  /\ last.op = "classify"
  /\ steps = 2
  /\ origin.op = "fromNullable"
  /\ last.this = NewSome(Num(2))
  /\ last.out.val.items[4] = Bool(TRUE)
  /\ last.out.val.items[6] = Num(1)

\* C16: getOrElse(thunk) and getOrElseInv(thunk) return v on Some(v) and do
\* not evaluate the thunk; on a None they evaluate the thunk exactly once
\* and return what it returns.  orNull() and toNullable() return the same on
\* every option: v on Some(v), null on None.  toUndefined() returns v on
\* Some(v) and undefined on None.
C16_GetOrElse ==
  /\ last.op \in {"getOrElse", "getOrElseInv"} =>
       LET d == last.args[1]
       IN /\ OnSome => /\ last.out = Ret(last.this.value, <<>>)
                       /\ Count(last.out.log, d) = 0
          /\ OnNone => /\ last.out = Call(d, <<>>)
                       /\ Count(last.out.log, d) = 1
  /\ last.op \in {"orNull", "toNullable"} =>
       /\ ~last.out.thrown
       /\ last.out.val = IF OnSome THEN last.this.value ELSE Null
       /\ last.out.val = orNull(last.this).val
       /\ last.out.val = toNullable(last.this).val
  /\ last.op = "toUndefined" =>
       /\ ~last.out.thrown
       /\ last.out.val = IF OnSome THEN last.this.value ELSE Undefined

C16_Witness ==
  /\ last.op = "getOrElse"
  /\ last.this = NewNone
  /\ last.args = <<constant(Num(0))>>
  /\ last.out = Ret(Num(0), Entry(constant(Num(0)), <<>>))

\* C17: orElse(altThunk) on a None evaluates altThunk exactly once and
\* returns what it returns, a None included; on a Some it returns the
\* receiver, unchanged, and does not evaluate altThunk.
C17_OrElse ==
  last.op = "orElse" =>
    LET alt == last.args[1]
    IN /\ OnNone => /\ last.out = Call(alt, <<>>)
                    /\ Count(last.out.log, alt) = 1
       /\ OnSome => /\ last.out = Ret(last.this, <<>>)
                    /\ Count(last.out.log, alt) = 0

C17_Witness ==
  /\ last.op = "orElse"
  /\ last.this = NewNone
  /\ last.args = <<constant(NewNone)>>
  /\ last.out = Ret(NewNone, Entry(constant(NewNone), <<>>))

\* C18: fold(onNone, onSome) invokes exactly one branch, exactly once, and
\* returns what it returns: onNone() on a None, onSome(v) on a Some(v).  The
\* other branch is not invoked, so a fold whose unselected branch throws
\* when called (F.absurd) does not throw because of it.
C18_Fold ==
  last.op = "fold" =>
    LET onNone == last.args[1]
        onSome == last.args[2]
    IN /\ OnNone => /\ last.out = Call(onNone, <<>>)
                    /\ last.out.log = Entry(onNone, <<>>)
       /\ OnSome => /\ last.out = Call(onSome, <<last.this.value>>)
                    /\ last.out.log = Entry(onSome, <<last.this.value>>)
                    /\ ~Call(onSome, <<last.this.value>>).thrown
                         => ~last.out.thrown

C18_Witness ==
  /\ last.op = "fold"
  /\ last.this = NewSome(Num(1))
  /\ last.args = <<absurd, [fn |-> "double"]>>
  /\ last.out = Ret(Num(2), Entry([fn |-> "double"], <<Num(1)>>))

\* C19: filter(p) on Some(v) returns Some(v) when p(v) is true and None
\* when it is false; on a None it returns None.  o.filterNot(p) returns (or
\* throws) the same as o.filter(F.not(p)); and on a Some, when p returns,
\* exactly one of filter(p) and filterNot(p) is a Some.
C19_Filter ==
  last.op \in {"filter", "filterNot"} =>
    LET p == last.args[1]
        viaNot == filter(last.this, not(p))
        other == IF last.op = "filter" THEN filterNot(last.this, p)
                                       ELSE filter(last.this, p)
    IN /\ (last.op = "filter" /\ OnNone) => last.out = Ret(NewNone, <<>>)
       /\ (last.op = "filter" /\ OnSome
           /\ ~Call(p, <<last.this.value>>).thrown) =>
            /\ ~last.out.thrown
            /\ last.out.val =
                 IF Call(p, <<last.this.value>>).val = Bool(TRUE)
                   THEN last.this ELSE NewNone
       /\ last.op = "filterNot" =>
            /\ last.out.thrown = viaNot.thrown
            /\ last.out.val = viaNot.val
       /\ (OnSome /\ ~Call(p, <<last.this.value>>).thrown) =>
            /\ ~last.out.thrown /\ ~other.thrown
            /\ (last.out.val._tag = "Some") # (other.val._tag = "Some")

C19_Witness ==
  /\ last.op = "filterNot"
  /\ last.this = NewSome(Num(1))
  /\ last.args = <<gt(0)>>
  /\ last.out.val = NewNone
  /\ filter(last.this, gt(0)).val = NewSome(Num(1))

\* C20: applicative.  x.ap(fnOpt), for fnOpt a None or a Some of a function
\* fn, invokes fn exactly once, with v, when x is Some(v) and fnOpt is
\* Some(fn), and returns Some(fn(v)) (or throws what fn throws); in every
\* other case it returns None and invokes nothing.
C20_Ap ==
  (last.op = "ap"
   /\ (last.args[1]._tag = "Some" => IsFunction(last.args[1].value))) =>
    LET that == last.args[1]
    IN IF OnSome /\ that._tag = "Some"
         THEN LET r == Call(that.value, <<last.this.value>>)
              IN /\ last.out.thrown = r.thrown
                 /\ last.out.val = IF r.thrown THEN r.val ELSE NewSome(r.val)
                 /\ Count(last.out.log, that.value) = 1
         ELSE last.out = Ret(NewNone, <<>>)

C20_Witness ==
  /\ last.op = "ap"
  /\ last.this = NewSome(Num(1))
  /\ last.args = <<NewSome([fn |-> "double"])>>
  /\ last.out = Ret(NewSome(Num(2)), Entry([fn |-> "double"], <<Num(1)>>))

\* One step of a fluent chain: the call of the next state is made on the
\* option the call of this state returned
Chained == /\ steps' = steps + 1
           /\ steps >= 1
           /\ ~last.out.thrown
           /\ IsOption(last.out.val)
           /\ last'.this = last.out.val

BothSome(a, b) == a._tag = "Some" /\ b._tag = "Some"

\* zip and unzip, each on its own, in the state after the call
ZipUnzip ==
  /\ last.op = "zip" =>
       last.out = Ret(IF BothSome(last.this, last.args[1])
                        THEN NewSome(Arr(<<last.this.value,
                                           last.args[1].value>>))
                        ELSE NewNone,
                      <<>>)
  /\ (last.op = "unzip" /\ OnNone) =>
       last.out = Ret(Arr(<<NewNone, NewNone>>), <<>>)
  /\ (last.op = "unzip" /\ OnSome) =>
       LET r == Call(last.args[1], <<last.this.value>>)
       IN (~r.thrown /\ IsArray(r.val) /\ Len(r.val.items) = 2) =>
            /\ ~last.out.thrown
            /\ last.out.val = Arr(<<NewSome(r.val.items[1]),
                                    NewSome(r.val.items[2])>>)
            /\ Count(last.out.log, last.args[1]) = 1

\* C21: a.zip(b) is Some([x, y]) exactly when a is Some(x) and b is Some(y)
\* and None when either is a None; unzip(asPair) on Some(v) returns
\* [Some(p1), Some(p2)] for [p1, p2] = asPair(v), and on a None returns
\* [None, None] without calling asPair.  Every step of a chain
\* a.zip(b).unzip(identity) therefore returns [a, b] when both are Some and
\* [None, None] otherwise.
C21_ZipUnzip ==
  [][/\ ZipUnzip'
     /\ (Chained /\ last.op = "zip" /\ last'.op = "unzip"
         /\ last'.args = <<identity>>) =>
          last'.out.val =
            IF BothSome(last.this, last.args[1])
              THEN Arr(<<last.this, last.args[1]>>)
              ELSE Arr(<<NewNone, NewNone>>)]_vars

C21_Witness ==
  /\ steps = 2
  /\ last.op = "unzip"
  /\ last.args = <<identity>>
  /\ last.this = NewSome(Arr(<<Num(2), Num(1)>>))
  /\ last.out.val = Arr(<<NewSome(Num(2)), NewSome(Num(1))>>)

\* C22: exists(p) is false on a None and p(v) on Some(v), so true exactly
\* when the option is a Some whose value satisfies p; forall(p) is true on a
\* None and p(v) on Some(v).  o.forall(p) returns the negation of
\* o.exists(F.not(p)), or throws as it does.
C22_ExistsForall ==
  /\ last.op \in {"exists", "forall"} =>
       LET p == last.args[1]
       IN /\ OnNone => last.out = Ret(Bool(last.op = "forall"), <<>>)
          /\ OnSome => last.out = Call(p, <<last.this.value>>)
  /\ last.op = "forall" =>
       LET e == exists(last.this, not(last.args[1]))
       IN /\ last.out.thrown = e.thrown
          /\ ~e.thrown => last.out.val = Bool(e.val # Bool(TRUE))

C22_Witness ==
  /\ last.op = "forall"
  /\ last.this = NewNone
  /\ last.args = <<gt(0)>>
  /\ last.out = Ret(Bool(TRUE), <<>>)
  /\ exists(last.this, not(gt(0))) = Ret(Bool(FALSE), <<>>)

\* mapNullable on its own, in the state after the call
MapNullable ==
  last.op = "mapNullable" =>
    LET f == last.args[1]
    IN /\ OnNone => last.out = Ret(NewNone, <<>>)
       /\ OnSome =>
            LET r == Call(f, <<last.this.value>>)
            IN /\ last.out.thrown = r.thrown
               /\ Count(last.out.log, f) = 1
               /\ ~r.thrown =>
                    last.out.val = IF r.val \in {Null, Undefined}
                                     THEN NewNone ELSE NewSome(r.val)

\* C23: mapNullable(f) on Some(v) is None when f(v) is null or undefined and
\* Some(f(v)) otherwise; on a None it is None.  In a chain of mapNullable
\* calls every call is made on what the call before it returned: once that
\* is a None (the receiver was a None, or the callback returned null or
\* undefined) the next call invokes nothing and returns None, and so does
\* every later one; while it is a Some, the next callback is invoked once,
\* with the value the callback before it returned.
C23_MapNullableChain ==
  [][/\ MapNullable'
     /\ (Chained /\ last.op = "mapNullable" /\ last'.op = "mapNullable") =>
          /\ last.out.val = NewNone => last'.out = Ret(NewNone, <<>>)
          /\ last.out.val # NewNone =>
               /\ last.out.val.value =
                    Call(last.args[1], <<last.this.value>>).val
               /\ Invocations(last'.out.log, last'.args[1]) = {1}
               /\ last'.out.log[1].args = <<last.out.val.value>>]_vars

C23_Witness ==
  /\ steps = 2
  /\ origin.op = "Some"
  /\ origin.args = <<Num(1)>>
  /\ last.op = "mapNullable"
  /\ last.args = <<[fn |-> "double"]>>
  /\ last.this = NewNone
  /\ last.out = Ret(NewNone, <<>>)

\* C24: flatten, and the pipeable flatten and compact, return what
\* flatMap(F.identity) returns on the same option; on a nested option that
\* is the inner option for Some(inner) (Some(v) for Some(Some(v)), None for
\* Some(None)) and None for a None.
C24_Flatten ==
  last.op \in {"flatten", "P.flatten", "P.compact"} =>
    /\ last.out = flatMap(last.this, identity)
    /\ OnNone => last.out.val = NewNone
    /\ (OnSome /\ IsOption(last.this.value)) =>
         /\ ~last.out.thrown
         /\ last.out.val = last.this.value

C24_Witness ==
  /\ last.op = "flatten"
  /\ last.this = NewSome(NewNone)
  /\ last.out.val = NewNone
  /\ ~last.out.thrown

\* The option the chain started from is as its constructor built it: a Some
\* of the value passed to Some, apply or fromNullable, from which get()
\* returns that value, or a None
AsConstructed ==
  LET o == origin.out.val
  IN /\ origin.op \in {"None", "empty"} => o = NewNone
     /\ origin.op = "Some" => o._tag = "Some"
     /\ (origin.op \in {"Some", "apply", "fromNullable"} /\ o._tag = "Some") =>
          get(o) = Ret(origin.args[1], <<>>)

C26_ApplyAsDocumented ==
  last.op = "apply" =>
    LET x == last.args[1]
    IN /\ last.out = Ret(IF LooseNull(x) THEN NewNone ELSE NewSome(x), <<>>)
       /\ last.out = fromNullable(x)

RECURSIVE LeftToRight(_, _)
\* fn(...f2(f1(x))...) for fns = <<f1, ..., fn>>, and x for no function
LeftToRight(fns, x) ==
  IF fns = <<>>
    THEN Ret(x, <<>>)
    ELSE Bind(LeftToRight(SubSeq(fns, 1, Len(fns) - 1), x),
              LAMBDA r: Call(fns[Len(fns)], <<r>>))

Reverse(fns) == [i \in 1..Len(fns) |-> fns[Len(fns) + 1 - i]]

\* C27: pipe(f1, ..., fn)(x) applies the functions left to right, each
\* exactly once: it returns fn(...f2(f1(x))...), having invoked f1 with x
\* and every later function with what the one before it returned (a
\* function that throws ends it); pipe()(x) returns x and invokes nothing.
C27_Pipe ==
  last.op = "pipe" =>
    LET fns == last.args[1].items
        x == last.args[2]
    IN /\ last.out = LeftToRight(fns, x)
       /\ fns = <<>> => last.out = Ret(x, <<>>)
       /\ ~last.out.thrown =>
            /\ Len(last.out.log) = Len(fns)
            /\ \A i \in 1..Len(fns) : last.out.log[i].cb = fns[i]

C27_Witness ==
  /\ last.op = "pipe"
  /\ last.args = <<Arr(<<[fn |-> "toNull"], [fn |-> "double"]>>), Num(1)>>
  /\ last.out.val = Num(0)
  /\ Len(last.out.log) = 2

\* C28: compose(f1, ..., fn)(x) applies the functions right to left, each
\* exactly once: it returns f1(f2(...fn(x)...)), which is what
\* pipe(fn, ..., f1)(x) returns.
C28_Compose ==
  last.op = "compose" =>
    LET fns == last.args[1].items
        x == last.args[2]
    IN /\ last.out = LeftToRight(Reverse(fns), x)
       /\ last.out = pipe(Reverse(fns), x)
       /\ ~last.out.thrown =>
            /\ Len(last.out.log) = Len(fns)
            /\ \A i \in 1..Len(fns) :
                 last.out.log[i].cb = fns[Len(fns) + 1 - i]

C28_Witness ==
  /\ last.op = "compose"
  /\ last.args = <<Arr(<<[fn |-> "toNull"], [fn |-> "double"]>>), Num(1)>>
  /\ last.out.val = Null
  /\ last.out.log[1] = Entry([fn |-> "double"], <<Num(1)>>)[1]

\* C29: flatten does not test that the wrapped value is an option: on
\* every Some(v) it returns v itself, so for a v that is not an option (1,
\* null, a function) the result is that raw value and not an option.
C29_FlattenRaw ==
  (last.op = "flatten" /\ OnSome) =>
    /\ ~last.out.thrown
    /\ last.out.val = last.this.value
    /\ ~IsOption(last.this.value) => ~IsOption(last.out.val)

C29_Witness ==
  /\ last.op = "flatten"
  /\ last.this = NewSome(Num(1))
  /\ last.out.val = Num(1)
  /\ recv = NewSome(Num(1))

RECURSIVE FoldOf(_, _, _)
\* op(...op(op(init, x1), x2)..., xn) for xs = <<x1, ..., xn>>, and init
\* for no element
FoldOf(init, op, xs) ==
  IF xs = <<>>
    THEN Ret(init, <<>>)
    ELSE Bind(FoldOf(init, op, SubSeq(xs, 1, Len(xs) - 1)),
              LAMBDA a: Call(op, <<a, xs[Len(xs)]>>))

\* C30: foldLeft(init)(op) is a pure function: every application of it to
\* an iterable [x1, ..., xn], the second and every later one included,
\* returns op(...op(op(init, x1), x2)..., xn), visiting the elements in
\* iteration order, and init for an empty iterable.
C30_FoldLeftPure ==
  last.op = "foldLeft.apply" =>
    last.out = FoldOf(origin.args[1], reducer_op, last.args[1].items)

====
